---- MODULE Spec2Model ----
(***************************************************************************)
(* Model of src/NI_DAQmx/blacs_workers.py:                                 *)
(*   - NI_DAQmxAcquisitionWorker: the foreground (BLACS host) thread that   *)
(*     runs transition_to_buffered / transition_to_manual / start_task /    *)
(*     stop_task, and the DAQmx callback thread that runs read().           *)
(*   - Ni_DAQmxWaitMonitorWorker: the counter read thread (daqmx_read,      *)
(*     wait_for_rising_edge) and the foreground transition_to_manual.       *)
(* Time of the wait monitor is counted in ticks of 0.1 s.                   *)
(***************************************************************************)
EXTENDS Integers, Sequences, FiniteSets, TLC

\* ------------------------------------------------------------------ bounds
\* sample blocks (of num_samples samples) one task's hardware acquires at most
MaxAcq == 2
\* transition_to_buffered calls (shots) at most
MaxShots == 1
\* every-N-samples callbacks queued in the driver at most
MaxPending == 2
\* direct start_task / stop_task calls at most (SpecAPI)
MaxDirect == 3

\* ticks of 0.1 s the wait monitor's clock runs
MaxTime == 6
\* the longest timeout, in ticks, a wait is called with
MaxTimeout == 4
\* semi-period samples the counter buffers at most
MaxEdges == 1
\* PauseEvents in a wait table at most
MaxWaits == 2
\* the latest scheduled time of a PauseEvent, in ticks
MaxWaitTime == 2
\* the longest timeout of a PauseEvent, in ticks
MaxWaitTimeout == 2
\* retrigger pulses written to the timeout line at most
MaxPulses == 2
\* ticks of the measurement time axis per sample period (1 / rate)
TicksPerSample == 2
\* chunks in the list handed to np.concatenate at most
MaxChunks == 2
\* MeasurementRequests (rows of the AI table) at most
MaxReqs == 2
\* the longest resolved wait duration, in ticks
MaxDuration == 1
\* the longest half period, in ticks
MaxHalfPeriod == 2
\* the low rates start_task is tried with, in samples per second
MaxRate == 60

\* ------------------------------------------------------- program constants
MAX_READ_PTS == 10000
\* MAX_READ_INTERVAL = 0.2 s, as the divisor of the rate: rate * 0.2 = rate / 5
MAX_READ_INTERVAL_DIV == 5
manual_mode_rate == 1000
\* wait_for_rising_edge: read_timeout = 0.2 s when no timeout is given, in ticks
PollTicks == 2

\* values of the shot file's wait_monitor_timeout_trigger_type attribute
TriggerTypes == {"rising", "falling", "both"}

\* rows a chunk may hold (samples_read of one read)
ChunkSizes == {0, 1, 2}

\* values of AI_start_delay, in ticks
StartDelays == {0, 1}

\* acquisition rates a shot file may ask for (device_properties['acquisition_rate'])
Rates == {1000, 100000}

VARIABLES
  \* ---- NI_DAQmxAcquisitionWorker instance state
  task,            \* self.task: 0 (None) or the handle of the Task object
  read_array,      \* self.read_array: -1 (None) or the rows (num_samples) allocated
  buffered_mode,   \* self.buffered_mode
  h5_file,         \* self.h5_file: 0 (None) or the shot
  acquired_data,   \* self.acquired_data: [isNone, chunks]
  buffered_rate,   \* self.buffered_rate: 0 (None) or the rate
  buffered_chans,  \* self.buffered_chans: FALSE (None) or TRUE (a channel list)
  lockOwner,       \* self.tasklock (RLock): "none", "fg" or "cb"
  lockDepth,       \* recursion depth of the RLock
  \* ---- the DAQmx driver
  drv,             \* the task the driver holds: [h, kind, state, acq, rd]
  held,            \* the handles of the tasks created and not cleared
  pending,         \* every-N-samples callbacks queued, each with its task handle
  \* ---- the callback thread (read as a callback)
  cbpc, cbH, cbData,
  \* ---- the foreground thread
  fgpc, fgop, fgret, fgabort, fgkind, fgrate, phase, err, shots, direct, nhandles,
  \* ---- the shot file
  traces,          \* shots whose MeasurementSeries were written
  \* ---- history
  sessRead,        \* blocks read from the buffered task since acquired_data = []
  lost,            \* blocks acquired by a buffered task and unread when it was cleared
  lastCb,          \* how the last callback ended
  rejects,         \* the methods whose guard has raised
  entered,         \* buffered_mode when the running transition_to_manual was entered
  tracesIn,        \* traces when the running transition_to_manual was entered
  \* ---- the shot file's waits and the wait monitor's notification
  shot_waits,      \* len(hdf5_file['waits']) > 0 in the file of the current shot
  analysed         \* the shots for which wait_durations_analysed has been posted

acqvars == <<task, read_array, buffered_mode, h5_file, acquired_data, buffered_rate,
             buffered_chans, lockOwner, lockDepth, drv, held, pending, cbpc, cbH, cbData,
             fgpc, fgop, fgret, fgabort, fgkind, fgrate, phase, err, shots, direct,
             nhandles, traces, sessRead, lost, lastCb, rejects, entered,
             tracesIn, shot_waits, analysed>>

selfvars == <<task, read_array, buffered_mode, h5_file, acquired_data, buffered_rate,
              buffered_chans>>
sessvars == <<h5_file, acquired_data, buffered_rate, buffered_chans>>
lockvars == <<lockOwner, lockDepth>>
cbvars == <<cbpc, cbH, cbData>>
callvars == <<fgop, fgret, fgabort, fgkind, fgrate, shots, direct>>
histvars == <<sessRead, lost, lastCb, rejects, entered, tracesIn>>
evvars == <<shot_waits, analysed>>

VARIABLES
  \* ---- Ni_DAQmxWaitMonitorWorker
  wm_abort,        \* self.abort
  wm_pc,           \* where the counter read thread is
  wm_timeout,      \* the timeout argument of the running wait: -1 (None) or ticks
  wm_readEnd,      \* the tick at which the running ReadCounterF64 gives up
  wm_now,          \* the clock, in ticks of 0.1 s
  wm_edges,        \* semi-period samples in the counter's buffer
  wm_result,       \* what the last wait returned
  wm_err,          \* what the last foreground call of the wait monitor raised
  wm_posted,       \* the notifications posted, in order
  wm_abortAt,      \* the tick of an abort issued while the thread was blocked; -1 if none
  wait_table,      \* self.wait_table: the PauseEvents, each [time, timeout]
  timeout_trigger_type,    \* self.timeout_trigger_type
  is_wait_monitor_device,  \* self.is_wait_monitor_device
  waits_in_use,    \* self.waits_in_use
  task_running,    \* self.task_running: "unset", "True" or "False"
  half_periods,    \* self.half_periods: [set, list], the list in ticks once set
  timeout_line,    \* the levels written to the timeout line, in order
  waits_store,     \* the record sets written to /data/waits, in order
  wm_call,         \* the last foreground call: [op, abort]
  wm_roles,        \* what the shot file names this device as: [timeout, acquisition]
  wm_t0            \* the tick at which the first edge wait returned an edge; -1 if none

\* what transition_to_buffered sets up for a session
wmsess == <<wait_table, timeout_trigger_type, is_wait_monitor_device, waits_in_use,
            task_running, half_periods, wm_roles>>

wmvars == <<wm_abort, wm_pc, wm_timeout, wm_readEnd, wm_now, wm_edges, wm_result,
            wm_err, wm_posted, wm_abortAt, wmsess, timeout_line, waits_store, wm_call,
            wm_t0>>

VARIABLES
  \* ---- transition_to_manual's concatenation and extract_measurements, on their own
  x_chunks,        \* self.acquired_data: the chunks, each [first, n]
  x_t0,            \* self.AI_start_delay, in ticks
  x_waits,         \* /data/waits: each [time, duration]
  x_reqs,          \* the rows of the AI table: each [t_start, t_end]
  x_pc,            \* "idle", "concat", "loop", "done" or "raised"
  x_raw,           \* raw_data[connection]: the samples, in order
  x_i,             \* rows of the AI table gone through
  x_out,           \* the datasets created: each [req, t_start, t_end, i_start, i_end, values]
  x_err,           \* what was raised
  \* ---- the wait durations of transition_to_manual, on their own
  r_half_periods,  \* self.half_periods
  r_table,         \* self.wait_table
  r_pc,            \* "idle", "call" or "done"
  r_out,           \* [err, rows]
  \* ---- the sizing of start_task's read, on its own
  s_rate,          \* rate, in samples per second
  s_pc,            \* "idle", "call" or "done"
  s_num_samples    \* num_samples

xvars == <<x_chunks, x_t0, x_waits, x_reqs, x_pc, x_raw, x_i, x_out, x_err>>
rvars == <<r_half_periods, r_table, r_pc, r_out>>
svars == <<s_rate, s_pc, s_num_samples>>
purevars == <<xvars, rvars, svars>>

vars == <<acqvars, wmvars, purevars>>

\* ------------------------------------------------------------------ values
NoneData == [isNone |-> TRUE, chunks |-> <<>>]
ListData(s) == [isNone |-> FALSE, chunks |-> s]
NoTask == [h |-> 0, kind |-> "none", state |-> "none", acq |-> 0, rd |-> 0]

\* the integer a handle argument of the callback carries
IntHandle(h) == <<"int", h>>
\* a Task object passed where a handle is expected
TaskObject(h) == <<"Task", h>>
\* self.task.taskHandle.value
TaskHandleValue == IntHandle(task)

Min(a, b) == IF a < b THEN a ELSE b

\* start_task: num_samples = min(MAX_READ_PTS, int(rate * MAX_READ_INTERVAL))
NumSamples(rate) == Min(MAX_READ_PTS, rate \div MAX_READ_INTERVAL_DIV)

\* the block numbers held by a list of chunks, in order
RECURSIVE Units(_)
Units(chunks) ==
  IF chunks = <<>> THEN <<>>
  ELSE LET c == Head(chunks)
       IN  [i \in 1..c.n |-> c.first + i - 1] \o Units(Tail(chunks))

\* ------------------------------------------------------------- the RLock
\* a lock that never blocks
CanAcquireNoLock(t) == TRUE

\* `with self.tasklock` can be entered by thread t
CanAcquire(t) == lockOwner \in {"none", t}

Acquire(t) ==
  /\ CanAcquire(t)
  /\ lockOwner' = t
  /\ lockDepth' = lockDepth + 1

Release ==
  /\ lockDepth' = IF lockDepth > 0 THEN lockDepth - 1 ELSE 0
  /\ lockOwner' = IF lockDepth > 1 THEN lockOwner ELSE "none"

\* ------------------------------------------------------------- read()
\* the check of read() without the comparison of handles
TaskStoppedAlreadyNoHandle(task_handle) == task = 0

\* read(): `self.task is None or task_handle != self.task.taskHandle.value`
TaskStoppedAlready(task_handle) == task = 0 \/ task_handle # TaskHandleValue

\* blocks a ReadAnalogF64 of num_samples (a callback) or of -1 (all) returns
ReadCount(all) == IF all THEN drv.acq - drv.rd ELSE Min(1, drv.acq - drv.rd)

\* a ReadAnalogF64 on self.task cannot deliver: no Task object, a cleared task,
\* or nothing in its buffer
ReadFaults == task = 0 \/ drv.h # task \/ drv.state \notin {"running", "stopped"}

\* the chunk `data` a read called with task_handle gets from ReadAnalogF64
ReadChunk(task_handle, all) ==
  [h |-> drv.h, kind |-> drv.kind, first |-> drv.rd + 1, n |-> ReadCount(all),
   arg |-> task_handle, live |-> TRUE]

\* the driver after that ReadAnalogF64
DrvAfterRead(all) == [drv EXCEPT !.rd = drv.rd + ReadCount(all)]

SessReadAfter(all) ==
  IF drv.kind = "buffered" THEN sessRead + ReadCount(all) ELSE sessRead

\* an append whatever the mode, whenever there is a list
AppendedAnyMode(data) ==
  IF ~acquired_data.isNone
  THEN ListData(Append(acquired_data.chunks, [data EXCEPT !.live = (task = data.h)]))
  ELSE acquired_data

\* `if self.buffered_mode: self.acquired_data.append(data)`
Appended(data) ==
  IF buffered_mode /\ ~acquired_data.isNone
  THEN ListData(Append(acquired_data.chunks, [data EXCEPT !.live = (task = data.h)]))
  ELSE acquired_data

\* ----------------------------------------------- the driver's callback event
\* the running task acquires num_samples more samples and queues a callback
HwEveryNSamples ==
  /\ drv.state = "running"
  /\ drv.acq < MaxAcq
  /\ Len(pending) < MaxPending
  /\ drv' = [drv EXCEPT !.acq = drv.acq + 1]
  /\ pending' = Append(pending, drv.h)
  /\ UNCHANGED <<selfvars, lockvars, cbvars, fgpc, callvars, phase, err, nhandles,
                 traces, histvars, evvars, held,
                 wmvars, purevars>>

\* ------------------------------------------------- read() as the callback
CbBegin ==
  /\ cbpc = "idle"
  /\ pending # <<>>
  /\ cbH' = IntHandle(Head(pending))
  /\ pending' = Tail(pending)
  /\ cbpc' = "lock"
  /\ UNCHANGED <<selfvars, lockvars, drv, cbData, fgpc, callvars, phase, err,
                 nhandles, traces, histvars, evvars, held,
                 wmvars, purevars>>

\* with self.tasklock:
CbLock ==
  /\ cbpc = "lock"
  /\ Acquire("cb")
  /\ cbpc' = "check"
  /\ UNCHANGED <<selfvars, drv, pending, cbH, cbData, fgpc, callvars, phase, err,
                 nhandles, traces, histvars, evvars, held,
                 wmvars, purevars>>

\* if self.task is None or task_handle != self.task.taskHandle.value: return 0
CbCheck ==
  /\ cbpc = "check"
  /\ IF TaskStoppedAlready(cbH)
     THEN /\ Release
          /\ cbpc' = "idle"
          /\ lastCb' = IF task = 0 THEN "discard_none" ELSE "discard_stale"
     ELSE /\ cbpc' = "read"
          /\ UNCHANGED <<lockvars, lastCb>>
  /\ UNCHANGED <<selfvars, drv, pending, cbH, cbData, fgpc, callvars, phase, err,
                 nhandles, traces, sessRead, lost, entered, rejects, tracesIn, evvars, held,
                 wmvars, purevars>>

\* self.task.ReadAnalogF64(num_samples, ...); data = self.read_array[:n].astype(float32)
CbRead ==
  /\ cbpc = "read"
  /\ IF ~ReadFaults /\ ReadCount(FALSE) > 0
     THEN /\ cbData' = ReadChunk(cbH, FALSE)
          /\ drv' = DrvAfterRead(FALSE)
          /\ sessRead' = SessReadAfter(FALSE)
          /\ cbpc' = "append"
          /\ UNCHANGED <<lockvars, lastCb>>
     ELSE /\ Release
          /\ cbpc' = "idle"
          /\ lastCb' = "fault"
          /\ UNCHANGED <<cbData, drv, sessRead>>
  /\ UNCHANGED <<selfvars, pending, cbH, fgpc, callvars, phase, err, nhandles,
                 traces, lost, entered, rejects, tracesIn, evvars, held,
                 wmvars, purevars>>

\* if self.buffered_mode: self.acquired_data.append(data); leave the with block
CbAppend ==
  /\ cbpc = "append"
  /\ acquired_data' = Appended(cbData)
  /\ Release
  /\ cbpc' = "idle"
  /\ lastCb' = "read"
  /\ UNCHANGED <<task, read_array, buffered_mode, h5_file, buffered_rate,
                 buffered_chans, drv, pending, cbH, cbData, fgpc, callvars, phase,
                 err, nhandles, traces, sessRead, lost, entered, rejects, tracesIn, evvars, held,
                 wmvars, purevars>>

\* --------------------------------------------------- the foreground thread
\* an exception leaves the running method; a failed transition is fatal to the tab
Raised(e) ==
  /\ fgpc' = "idle"
  /\ err' = e
  /\ phase' = IF fgop \in {"t2b", "t2m"} THEN "fatal" ELSE phase

\* ------------------------------------------------------------- stop_task()
\* stop_task without its with block
StopLockNoLock ==
  /\ fgpc = "stop_lock"
  /\ fgpc' = "stop_guard"
  /\ UNCHANGED <<selfvars, lockvars, drv, pending, cbvars, callvars, phase, err,
                 nhandles, traces, histvars, evvars, held,
                 wmvars, purevars>>

\* with self.tasklock:
StopLock ==
  /\ fgpc = "stop_lock"
  /\ Acquire("fg")
  /\ fgpc' = "stop_guard"
  /\ UNCHANGED <<selfvars, drv, pending, cbvars, callvars, phase, err, nhandles,
                 traces, histvars, evvars, held,
                 wmvars, purevars>>

\* stop_task: `if self.task is None`
TaskNotRunning == task = 0

\* if self.task is None: raise RuntimeError('Task not running')
StopGuard ==
  /\ fgpc = "stop_guard"
  /\ IF TaskNotRunning
     THEN Raised("RuntimeError") /\ Release /\ rejects' = rejects \cup {"stop_task"}
     ELSE fgpc' = "stop_read" /\ UNCHANGED <<phase, err, lockvars, rejects>>
  /\ UNCHANGED <<selfvars, drv, pending, cbvars, callvars, nhandles, traces,
                 sessRead, lost, lastCb, entered, tracesIn, evvars, held,
                 wmvars, purevars>>

\* self.read(self.task, None, -1): the Task object is passed as task_handle
StopRead ==
  /\ fgpc = "stop_read"
  /\ IF TaskStoppedAlready(TaskObject(task))
     THEN UNCHANGED <<acquired_data, drv, sessRead>>
     ELSE /\ acquired_data' = Appended(ReadChunk(TaskObject(task), TRUE))
          /\ drv' = DrvAfterRead(TRUE)
          /\ sessRead' = SessReadAfter(TRUE)
  /\ fgpc' = "stop_stop"
  /\ UNCHANGED <<task, read_array, buffered_mode, h5_file, buffered_rate,
                 buffered_chans, lockvars, pending, cbvars, callvars, phase, err,
                 nhandles, traces, lost, lastCb, entered, rejects, tracesIn, evvars, held,
                 wmvars, purevars>>

\* self.task.StopTask(), which the driver may refuse with a DAQError
StopStop ==
  /\ fgpc = "stop_stop"
  /\ \/ /\ drv' = [drv EXCEPT !.state = "stopped"]
        /\ fgpc' = "stop_clear"
        /\ UNCHANGED <<phase, err, lockvars>>
     \/ /\ Raised("DAQError")
        /\ Release
        /\ UNCHANGED drv
  /\ UNCHANGED <<selfvars, pending, cbvars, callvars, nhandles, traces, histvars,
                 evvars, held,
                 wmvars, purevars>>

\* stop_task that clears the task and keeps its handle in self.task
StopClearHandleKept ==
  /\ fgpc = "stop_clear"
  /\ lost' = (lost \/ (drv.kind = "buffered" /\ drv.acq > drv.rd))
  /\ drv' = [drv EXCEPT !.state = "cleared"]
  /\ held' = held \ {task}
  /\ task' = task
  /\ read_array' = -1
  /\ fgpc' = "stop_unlock"
  /\ UNCHANGED <<buffered_mode, sessvars, lockvars, pending, cbvars, callvars,
                 phase, err, nhandles, traces, sessRead, lastCb, entered, rejects, tracesIn, evvars,
                 wmvars, purevars>>

\* self.task.ClearTask(); self.task = None; self.read_array = None
StopClear ==
  /\ fgpc = "stop_clear"
  /\ lost' = (lost \/ (drv.kind = "buffered" /\ drv.acq > drv.rd))
  /\ drv' = [drv EXCEPT !.state = "cleared"]
  /\ held' = held \ {task}
  /\ task' = 0
  /\ read_array' = -1
  /\ fgpc' = "stop_unlock"
  /\ UNCHANGED <<buffered_mode, sessvars, lockvars, pending, cbvars, callvars,
                 phase, err, nhandles, traces, sessRead, lastCb, entered, rejects, tracesIn, evvars,
                 wmvars, purevars>>

\* leave the with block and return
StopUnlock ==
  /\ fgpc = "stop_unlock"
  /\ Release
  /\ fgpc' = fgret
  /\ UNCHANGED <<selfvars, drv, pending, cbvars, callvars, phase, err, nhandles,
                 traces, histvars, evvars, held,
                 wmvars, purevars>>

\* ------------------------------------------------------------ start_task()
\* start_task without its guard
TaskAlreadyRunningNever == FALSE

\* start_task: `if self.task is not None`
TaskAlreadyRunning == task # 0

\* if self.task is not None: raise RuntimeError('Task already running')
StartGuard ==
  /\ fgpc = "start_guard"
  /\ IF TaskAlreadyRunning
     THEN Raised("RuntimeError") /\ rejects' = rejects \cup {"start_task"}
     ELSE fgpc' = "start_alloc" /\ UNCHANGED <<phase, err, rejects>>
  /\ UNCHANGED <<selfvars, lockvars, drv, pending, cbvars, callvars, nhandles,
                 traces, sessRead, lost, lastCb, entered, tracesIn, evvars, held,
                 wmvars, purevars>>

\* self.read_array = np.zeros((num_samples, num_chans)); self.task = Task()
StartAlloc ==
  /\ fgpc = "start_alloc"
  /\ read_array' = NumSamples(fgrate)
  /\ nhandles' = nhandles + 1
  /\ task' = nhandles + 1
  /\ drv' = [h |-> nhandles + 1, kind |-> fgkind, state |-> "created", acq |-> 0,
             rd |-> 0]
  /\ held' = held \cup {nhandles + 1}
  /\ fgpc' = "start_run"
  /\ UNCHANGED <<buffered_mode, sessvars, lockvars, pending, cbvars, callvars,
                 phase, err, traces, histvars, evvars,
                 wmvars, purevars>>

\* channels, timing, start trigger, RegisterEveryNSamplesEvent, StartTask()
StartRun ==
  /\ fgpc = "start_run"
  /\ drv' = [drv EXCEPT !.state = "running"]
  /\ fgpc' = fgret
  /\ UNCHANGED <<selfvars, lockvars, pending, cbvars, callvars, phase, err,
                 nhandles, traces, histvars, evvars, held,
                 wmvars, purevars>>

\* ------------------------------------------------ transition_to_buffered()
\* the host calls transition_to_buffered; `if 'AI' not in group: return {}`
T2B_Call ==
  /\ fgpc = "idle"
  /\ phase = "manual"
  /\ shots < MaxShots
  /\ \E hasAI \in BOOLEAN, rate \in Rates, waits \in BOOLEAN :
       /\ shot_waits' = waits
       /\ fgop' = "t2b"
       /\ shots' = shots + 1
       /\ err' = "none"
       /\ fgrate' = rate
       /\ IF hasAI
          THEN fgpc' = "t2b_setup" /\ UNCHANGED phase
          ELSE fgpc' = "idle" /\ phase' = "buffered"
  /\ UNCHANGED <<selfvars, lockvars, drv, pending, cbvars, fgret, fgabort, fgkind,
                 direct, nhandles, traces, histvars, analysed, held,
                 wmvars, purevars>>

\* buffered_chans, h5_file, buffered_rate, acquired_data = []; self.stop_task()
T2B_Setup ==
  /\ fgpc = "t2b_setup"
  /\ buffered_chans' = TRUE
  /\ h5_file' = shots
  /\ buffered_rate' = fgrate
  /\ acquired_data' = ListData(<<>>)
  /\ sessRead' = 0
  /\ fgret' = "t2b_mode"
  /\ fgpc' = "stop_lock"
  /\ UNCHANGED <<task, read_array, buffered_mode, lockvars, drv, pending, cbvars,
                 fgop, fgabort, fgkind, fgrate, shots, direct, phase, err, nhandles,
                 traces, lost, lastCb, entered, rejects, tracesIn, evvars, held,
                 wmvars, purevars>>

\* self.buffered_mode = True; self.start_task(self.buffered_chans, self.buffered_rate)
T2B_Mode ==
  /\ fgpc = "t2b_mode"
  /\ buffered_mode' = TRUE
  /\ fgkind' = "buffered"
  /\ fgrate' = buffered_rate
  /\ fgret' = "t2b_done"
  /\ fgpc' = "start_guard"
  /\ UNCHANGED <<task, read_array, sessvars, lockvars, drv, pending, cbvars, fgop,
                 fgabort, shots, direct, phase, err, nhandles, traces, histvars,
                 evvars, held,
                 wmvars, purevars>>

\* return {}
T2B_Done ==
  /\ fgpc = "t2b_done"
  /\ fgpc' = "idle"
  /\ phase' = "buffered"
  /\ UNCHANGED <<selfvars, lockvars, drv, pending, cbvars, callvars, err, nhandles,
                 traces, histvars, evvars, held,
                 wmvars, purevars>>

\* -------------------------------------------------- transition_to_manual()
\* transition_to_manual without the restart of the manual-mode task
T2M_RestartSkipped == "t2m_abort"

\* where transition_to_manual goes once the buffered task is stopped and
\* buffered_mode is False: self.start_task(manual_mode_chans, manual_mode_rate)
T2M_Restart == "start_guard"

\* the host calls transition_to_manual(abort), abort_buffered() or
\* abort_transition_to_buffered(); `if not self.buffered_mode: return`
T2M_Call ==
  /\ fgpc = "idle"
  /\ \E abort \in BOOLEAN :
       /\ phase = "buffered" \/ (phase = "manual" /\ abort)
       /\ fgabort' = abort
  /\ fgop' = "t2m"
  /\ err' = "none"
  /\ entered' = buffered_mode
  /\ tracesIn' = traces
  /\ IF buffered_mode
     THEN fgret' = "t2m_mode" /\ fgpc' = "stop_lock" /\ UNCHANGED phase
     ELSE fgpc' = "idle" /\ phase' = "manual" /\ UNCHANGED fgret
  /\ UNCHANGED <<selfvars, lockvars, drv, pending, cbvars, fgkind, fgrate, shots,
                 direct, nhandles, traces, sessRead, lost, lastCb, rejects, evvars, held,
                 wmvars, purevars>>

\* self.buffered_mode = False; self.start_task(manual_mode_chans, manual_mode_rate)
T2M_Mode ==
  /\ fgpc = "t2m_mode"
  /\ buffered_mode' = FALSE
  /\ fgkind' = "manual"
  /\ fgrate' = manual_mode_rate
  /\ fgret' = "t2m_abort"
  /\ fgpc' = T2M_Restart
  /\ UNCHANGED <<task, read_array, sessvars, lockvars, drv, pending, cbvars, fgop,
                 fgabort, shots, direct, phase, err, nhandles, traces, histvars,
                 evvars, held,
                 wmvars, purevars>>

\* if abort: acquired_data, buffered_chans, h5_file, buffered_rate = None; return
T2M_Abort ==
  /\ fgpc = "t2m_abort"
  /\ IF fgabort
     THEN /\ acquired_data' = NoneData
          /\ buffered_chans' = FALSE
          /\ h5_file' = 0
          /\ buffered_rate' = 0
          /\ fgpc' = "idle"
          /\ phase' = "manual"
     ELSE /\ fgpc' = "t2m_concat"
          /\ UNCHANGED <<sessvars, phase>>
  /\ UNCHANGED <<task, read_array, buffered_mode, lockvars, drv, pending, cbvars,
                 callvars, err, nhandles, traces, histvars, evvars, held,
                 wmvars, purevars>>

\* raw_data = np.concatenate(self.acquired_data)...: ValueError on an empty list;
\* self.acquired_data = None; self.buffered_chans = None
T2M_Concat ==
  /\ fgpc = "t2m_concat"
  /\ IF acquired_data.isNone \/ acquired_data.chunks = <<>>
     THEN Raised("ValueError") /\ UNCHANGED <<acquired_data, buffered_chans>>
     ELSE /\ acquired_data' = NoneData
          /\ buffered_chans' = FALSE
          /\ fgpc' = "t2m_extract"
          /\ UNCHANGED <<phase, err>>
  /\ UNCHANGED <<task, read_array, buffered_mode, h5_file, buffered_rate, lockvars,
                 drv, pending, cbvars, callvars, nhandles, traces, histvars, evvars, held,
                 wmvars, purevars>>

\* extract_measurements without the wait for the notification
DurationsAwaitedNever == TRUE

\* extract_measurements: `if waits_in_use:
\* self.wait_durations_analysed.wait(self.h5_file)` has returned
DurationsAwaited == (~shot_waits) \/ h5_file \in analysed

\* the device that monitors the waits of the shot posts wait_durations_analysed
\* for the shot's file
WaitDurationsAnalysedPost ==
  /\ shots >= 1
  /\ shot_waits
  /\ shots \notin analysed
  /\ analysed' = analysed \cup {shots}
  /\ UNCHANGED <<selfvars, lockvars, drv, pending, cbvars, callvars, fgpc, phase, err,
                 nhandles, traces, histvars, shot_waits, held, wmvars, purevars>>

\* self.extract_measurements(raw_data, waits_in_use): waits for the durations
\* when waits are in use, reads them and writes the traces, or raises
T2M_Extract ==
  /\ fgpc = "t2m_extract"
  /\ DurationsAwaited
  /\ \/ /\ traces' = traces \cup {h5_file}
        /\ fgpc' = "t2m_finish"
        /\ UNCHANGED <<phase, err>>
     \/ /\ Raised("ExtractError")
        /\ UNCHANGED traces
  /\ UNCHANGED <<selfvars, lockvars, drv, pending, cbvars, callvars, nhandles,
                 histvars, evvars, held,
                 wmvars, purevars>>

\* self.h5_file = None; self.buffered_rate = None; return True
T2M_Finish ==
  /\ fgpc = "t2m_finish"
  /\ h5_file' = 0
  /\ buffered_rate' = 0
  /\ fgpc' = "idle"
  /\ phase' = "manual"
  /\ UNCHANGED <<task, read_array, buffered_mode, acquired_data, buffered_chans,
                 lockvars, drv, pending, cbvars, callvars, err, nhandles, traces,
                 histvars, evvars, held,
                 wmvars, purevars>>

\* ---------------------------------------- start_task / stop_task called directly
API_StartTask ==
  /\ fgpc = "idle"
  /\ phase # "fatal"
  /\ direct < MaxDirect
  /\ \E rate \in Rates : fgrate' = rate
  /\ direct' = direct + 1
  /\ fgop' = "start_task"
  /\ err' = "none"
  /\ fgkind' = IF buffered_mode THEN "buffered" ELSE "manual"
  /\ fgret' = "idle"
  /\ fgpc' = "start_guard"
  /\ UNCHANGED <<selfvars, lockvars, drv, pending, cbvars, fgabort, shots, phase,
                 nhandles, traces, histvars, evvars, held,
                 wmvars, purevars>>

API_StopTask ==
  /\ fgpc = "idle"
  /\ phase # "fatal"
  /\ direct < MaxDirect
  /\ direct' = direct + 1
  /\ fgop' = "stop_task"
  /\ err' = "none"
  /\ fgret' = "idle"
  /\ fgpc' = "stop_lock"
  /\ UNCHANGED <<selfvars, lockvars, drv, pending, cbvars, fgabort, fgkind, fgrate,
                 shots, phase, nhandles, traces, histvars, evvars, held,
                 wmvars, purevars>>

\* ------------------------------------------------------------------- init()
\* the state init() leaves: the lock, everything None, then
\* self.start_task(self.manual_mode_chans, self.manual_mode_rate)
AcqInit ==
  /\ task = 1
  /\ read_array = NumSamples(manual_mode_rate)
  /\ buffered_mode = FALSE
  /\ h5_file = 0
  /\ acquired_data = NoneData
  /\ buffered_rate = 0
  /\ buffered_chans = FALSE
  /\ lockOwner = "none"
  /\ lockDepth = 0
  /\ drv = [h |-> 1, kind |-> "manual", state |-> "running", acq |-> 0, rd |-> 0]
  /\ held = {1}
  /\ pending = <<>>
  /\ cbpc = "idle"
  /\ cbH = IntHandle(0)
  /\ cbData = [h |-> 0, kind |-> "none", first |-> 0, n |-> 0, arg |-> IntHandle(0),
               live |-> TRUE]
  /\ fgpc = "idle"
  /\ fgop = "init"
  /\ fgret = "idle"
  /\ fgabort = FALSE
  /\ fgkind = "manual"
  /\ fgrate = manual_mode_rate
  /\ phase = "manual"
  /\ err = "none"
  /\ shots = 0
  /\ direct = 0
  /\ nhandles = 1
  /\ traces = {}
  /\ sessRead = 0
  /\ lost = FALSE
  /\ lastCb = "none"
  /\ rejects = {}
  /\ entered = FALSE
  /\ tracesIn = {}
  /\ shot_waits = FALSE
  /\ analysed = {}

\* the wait monitor, not started, with self.timeout_trigger_type as given
WmFresh(type) ==
  /\ wm_abort = FALSE
  /\ wm_pc = "none"
  /\ wm_timeout = -1
  /\ wm_readEnd = 0
  /\ wm_now = 0
  /\ wm_edges = 0
  /\ wm_result = "none"
  /\ wm_err = "none"
  /\ wm_posted = <<>>
  /\ wm_abortAt = -1
  /\ wait_table = <<>>
  /\ timeout_trigger_type = type
  /\ is_wait_monitor_device = FALSE
  /\ waits_in_use = FALSE
  /\ task_running = "unset"
  /\ half_periods = [set |-> FALSE, list |-> <<>>]
  /\ timeout_line = <<>>
  /\ waits_store = <<>>
  /\ wm_call = [op |-> "init", abort |-> FALSE]
  /\ wm_roles = [timeout |-> FALSE, acquisition |-> FALSE]
  /\ wm_t0 = -1

\* the wait monitor after init(): no transition_to_buffered has set the type
WmIdle == WmFresh("unset")

\* ------------------------------------------ numpy, as the wait resolver uses it
\* np.cumsum
RECURSIVE CumSum(_)
CumSum(s) ==
  IF s = <<>> THEN <<>>
  ELSE LET front == CumSum(SubSeq(s, 1, Len(s) - 1))
       IN  Append(front, (IF front = <<>> THEN 0 ELSE front[Len(front)]) + s[Len(s)])

\* np.insert(s, 0, 0)
InsertZero(s) == <<0>> \o s

\* s[::2]
EveryOther(s) == [i \in 1..((Len(s) + 1) \div 2) |-> s[2 * i - 1]]

\* np.diff
Diff(s) == [i \in 1..(Len(s) - 1) |-> s[i + 1] - s[i]]

\* the length of an elementwise operation on arrays of lengths m and n; -1 if
\* the shapes cannot be broadcast together
BroadcastLen(m, n) ==
  IF m = n THEN m ELSE IF m = 1 THEN n ELSE IF n = 1 THEN m ELSE -1

\* element i of an array broadcast to a longer one
At(s, i) == IF Len(s) = 1 THEN s[1] ELSE s[i]

\* an assignment that keeps the first n values of a longer array
AssignableTruncating(k, n) == k >= n \/ k = 1

\* data[field] = value: a value of length k fits a field of n rows
Assignable(k, n) == k = n \/ k = 1

\* rising_edge_times of transition_to_manual, taking the odd-indexed edges
RisingEdgeTimesOdd(hp) == EveryOther(CumSum(hp))

\* edge_times = np.insert(np.cumsum(half_periods), 0, 0); edge_times[::2]
RisingEdgeTimes(hp) == EveryOther(InsertZero(CumSum(hp)))

\* transition_to_manual, lines 804-829: wait_durations and waits_timed_out from
\* the half periods and the wait table, and the rows of /data/waits
WaitOutcomes(hp, table) ==
  LET n == Len(table)
      periods == Diff(RisingEdgeTimes(hp))
      resume_times == InsertZero([i \in 1..n |-> table[i].time])
      run_periods == Diff(resume_times)
      k == BroadcastLen(Len(periods), Len(run_periods))
      wait_durations == [i \in 1..k |-> At(periods, i) - At(run_periods, i)]
      kt == BroadcastLen(k, n)
      timeouts == [i \in 1..n |-> table[i].timeout]
      waits_timed_out == [i \in 1..kt |-> At(wait_durations, i) > At(timeouts, i)]
  IN  IF k = -1 \/ kt = -1 \/ ~Assignable(k, n) \/ ~Assignable(kt, n)
      THEN [err |-> "ValueError", rows |-> <<>>]
      ELSE [err |-> "none",
            rows |-> [i \in 1..n |->
                       [time |-> table[i].time, timeout |-> table[i].timeout,
                        duration |-> At(wait_durations, i),
                        timed_out |-> At(waits_timed_out, i)]]]

\* the rows of np.empty(len(self.wait_table)) that are written unfilled
EmptyRows(table) ==
  [i \in 1..Len(table) |->
     [time |-> 0, timeout |-> 0, duration |-> 0, timed_out |-> FALSE]]

\* ------------------------------------- Ni_DAQmxWaitMonitorWorker: the waits
\* while True: if self.abort: raise RuntimeError('Aborted'); else the next
\* ReadCounterF64, with read_timeout = 0.2 when timeout is None, else timeout
WaitLoop ==
  /\ wm_pc = "loop"
  /\ IF wm_abort
     THEN /\ wm_pc' = "dead"
          /\ wm_result' = "Aborted"
          /\ UNCHANGED wm_readEnd
     ELSE /\ wm_pc' = "read"
          /\ wm_readEnd' = wm_now + (IF wm_timeout = -1 THEN PollTicks ELSE wm_timeout)
          /\ UNCHANGED wm_result
  /\ UNCHANGED <<wm_abort, wm_timeout, wm_now, wm_edges, wm_err, wm_posted,
                 wm_abortAt, wmsess, timeout_line, waits_store, wm_call, wm_t0,
                 acqvars, purevars>>

\* ReadCounterF64 returns a sample: return read_array[0]
WaitEdge ==
  /\ wm_pc = "read"
  /\ wm_edges > 0
  /\ wm_edges' = wm_edges - 1
  /\ wm_pc' = "ret"
  /\ wm_result' = "edge"
  /\ wm_t0' = IF wm_t0 = -1 THEN wm_now ELSE wm_t0
  /\ UNCHANGED <<wm_abort, wm_timeout, wm_readEnd, wm_now, wm_err, wm_posted,
                 wm_abortAt, wmsess, timeout_line, waits_store, wm_call, acqvars, purevars>>

\* except SamplesNotYetAvailableError: continue if timeout is None, else return None
WaitTimeout ==
  /\ wm_pc = "read"
  /\ wm_edges = 0
  /\ wm_now >= wm_readEnd
  /\ IF wm_timeout = -1
     THEN wm_pc' = "loop" /\ UNCHANGED wm_result
     ELSE wm_pc' = "ret" /\ wm_result' = "timeout"
  /\ UNCHANGED <<wm_abort, wm_timeout, wm_readEnd, wm_now, wm_edges, wm_err,
                 wm_posted, wm_abortAt, wmsess, timeout_line, waits_store, wm_call,
                 wm_t0, acqvars, purevars>>

\* the thread has something to do now: time does not pass over it
ThreadDue ==
  \/ wm_pc \in {"start", "loop"}
  \/ wm_pc = "read" /\ (wm_edges > 0 \/ wm_now >= wm_readEnd)
  \/ wm_pc = "ret" /\ half_periods.set

\* 0.1 s passes
Tick ==
  /\ wm_now < MaxTime
  /\ ~ThreadDue
  /\ wm_now' = wm_now + 1
  /\ UNCHANGED <<wm_abort, wm_pc, wm_timeout, wm_readEnd, wm_edges, wm_result, wm_err,
                 wm_posted, wm_abortAt, wmsess, timeout_line, waits_store, wm_call,
                 wm_t0, acqvars, purevars>>

\* an edge on the wait monitor input: the counter buffers a semi-period
HwEdge ==
  /\ wm_edges < MaxEdges
  /\ wm_edges' = wm_edges + 1
  /\ UNCHANGED <<wm_abort, wm_pc, wm_timeout, wm_readEnd, wm_now, wm_result, wm_err,
                 wm_posted, wm_abortAt, wmsess, timeout_line, waits_store, wm_call,
                 wm_t0, acqvars, purevars>>

\* stop_task: `with self.daqlock`; no method of the class assigns self.daqlock
HasDaqlock == FALSE

\* transition_to_manual(abort): self.abort = abort; self.stop_task(), which
\* raises AttributeError at `with self.daqlock`, so nothing after it runs.
\* Were the lock there: the tasks are stopped, self.abort is reset, and without
\* abort the wait durations are worked out, /data/waits is written by the wait
\* monitor device and wait_durations_analysed is posted.
WM_TransitionToManual ==
  /\ \E abort \in BOOLEAN :
       /\ wm_call' = [op |-> "t2m", abort |-> abort]
       /\ wm_abortAt' = IF ~abort THEN -1
                        ELSE IF wm_pc = "read" /\ wm_abortAt = -1 THEN wm_now
                        ELSE wm_abortAt
       /\ IF ~HasDaqlock
          THEN /\ wm_abort' = abort
               /\ wm_err' = "AttributeError"
               /\ UNCHANGED <<task_running, waits_store, wm_posted>>
          ELSE IF task_running = "unset"
          THEN /\ wm_abort' = abort
               /\ wm_err' = "AttributeError"
               /\ UNCHANGED <<task_running, waits_store, wm_posted>>
          ELSE LET resolve == is_wait_monitor_device /\ waits_in_use
                   out == IF resolve THEN WaitOutcomes(half_periods.list, wait_table)
                          ELSE [err |-> "none", rows |-> EmptyRows(wait_table)]
                   write == ~abort /\ out.err = "none" /\ is_wait_monitor_device
               IN  /\ wm_abort' = FALSE
                   /\ task_running' = "False"
                   /\ wm_err' = IF abort THEN "none" ELSE out.err
                   /\ waits_store' = IF write THEN Append(waits_store, out.rows)
                                     ELSE waits_store
                   /\ wm_posted' = IF write
                                   THEN Append(wm_posted, "wait_durations_analysed")
                                   ELSE wm_posted
  /\ UNCHANGED <<wm_pc, wm_timeout, wm_readEnd, wm_now, wm_edges, wm_result,
                 wait_table, timeout_trigger_type, is_wait_monitor_device,
                 waits_in_use, half_periods, wm_roles, timeout_line, wm_t0, acqvars, purevars>>

\* wait_for_rising_edge(timeout) called on the read thread with any timeout
WaitCall ==
  /\ wm_pc \in {"none", "ret"}
  /\ \E timeout \in {-1} \cup (0..MaxTimeout) : wm_timeout' = timeout
  /\ wm_pc' = "loop"
  /\ wm_result' = "none"
  /\ wm_abortAt' = -1
  /\ UNCHANGED <<wm_abort, wm_readEnd, wm_now, wm_edges, wm_err, wm_posted, wmsess,
                 timeout_line, waits_store, wm_call, wm_t0, acqvars, purevars>>

\* send_resume_trigger(pulse_width), called where a timed wait returned None:
\* the trigger level is written, held for pulse_width, and the line is rearmed;
\* ValueError for a trigger type that is neither 'rising' nor 'falling'
SendResumeTrigger ==
  /\ wm_pc = "ret"
  /\ wm_result = "timeout"
  /\ Len(timeout_line) < 2 * MaxPulses
  /\ IF timeout_trigger_type = "rising"
     THEN /\ timeout_line' = timeout_line \o <<1, 0>>
          /\ wm_result' = "triggered"
          /\ UNCHANGED wm_pc
     ELSE IF timeout_trigger_type = "falling"
     THEN /\ timeout_line' = timeout_line \o <<0, 1>>
          /\ wm_result' = "triggered"
          /\ UNCHANGED wm_pc
     ELSE /\ wm_pc' = "dead"
          /\ wm_result' = "ValueError"
          /\ UNCHANGED timeout_line
  /\ UNCHANGED <<wm_abort, wm_timeout, wm_readEnd, wm_now, wm_edges, wm_err,
                 wm_posted, wm_abortAt, wmsess, waits_store, wm_call, wm_t0, acqvars, purevars>>

\* ---------------------------------- Ni_DAQmxWaitMonitorWorker: the read thread
\* the wait tables a shot file may hold: times increasing, each with a timeout
WaitTables ==
  UNION {{t \in [1..n -> [time : 1..MaxWaitTime, timeout : 1..MaxWaitTimeout]] :
            \A i \in 1..(n - 1) : t[i].time < t[i + 1].time} : n \in 0..MaxWaits}

\* `if timeout_device == device_name or acquisition_device == device_name`
NamedAsWaitMonitor(roles) == roles.timeout \/ roles.acquisition

\* `if not timeout_device == device_name and acquisition_device == device_name`
OnlyAcquisitionDevice(roles) == (~roles.timeout) /\ roles.acquisition

\* transition_to_buffered(device_name, h5file, ...): with no waits it returns at
\* once; else it reads the attributes and the table and, on a device the file
\* names, creates and starts the counter task, arms the timeout line and starts
\* self.read_thread
WM_TransitionToBuffered ==
  /\ wm_call.op = "init"
  /\ wm_pc = "none"
  /\ \E table \in WaitTables, type \in TriggerTypes,
        roles \in [timeout : BOOLEAN, acquisition : BOOLEAN] :
       /\ wm_call' = [op |-> "t2b", abort |-> FALSE]
       /\ wm_roles' = roles
       /\ wait_table' = table
       /\ IF Len(table) = 0
          THEN /\ waits_in_use' = FALSE
               /\ is_wait_monitor_device' = FALSE
               /\ wm_err' = "none"
               /\ UNCHANGED <<timeout_trigger_type, task_running, half_periods,
                              timeout_line, wm_pc>>
          ELSE /\ waits_in_use' = TRUE
               /\ timeout_trigger_type' = type
               /\ IF ~NamedAsWaitMonitor(roles)
                  THEN /\ is_wait_monitor_device' = FALSE
                       /\ wm_err' = "none"
                       /\ UNCHANGED <<task_running, half_periods, timeout_line, wm_pc>>
                  ELSE IF OnlyAcquisitionDevice(roles)
                  THEN /\ is_wait_monitor_device' = FALSE
                       /\ wm_err' = "NotImplementedError"
                       /\ UNCHANGED <<task_running, half_periods, timeout_line, wm_pc>>
                  ELSE /\ is_wait_monitor_device' = TRUE
                       /\ timeout_line' = IF type = "falling"
                                          THEN Append(timeout_line, 1)
                                          ELSE timeout_line
                       /\ task_running' = "True"
                       /\ half_periods' = [set |-> TRUE, list |-> <<>>]
                       /\ wm_pc' = "start"
                       /\ wm_err' = "none"
  /\ UNCHANGED <<wm_abort, wm_timeout, wm_readEnd, wm_now, wm_edges, wm_result,
                 wm_posted, wm_abortAt, waits_store, wm_t0, acqvars, purevars>>

\* daqmx_read: with self.kill_lock: self.wait_for_rising_edge()
DaqmxReadStart ==
  /\ wm_pc = "start"
  /\ wm_timeout' = -1
  /\ wm_pc' = "loop"
  /\ UNCHANGED <<wm_abort, wm_readEnd, wm_now, wm_edges, wm_result, wm_err,
                 wm_posted, wm_abortAt, wmsess, timeout_line, waits_store, wm_call,
                 wm_t0, acqvars, purevars>>

\* daqmx_read: `for wait in self.wait_table:` whose first statement reads the
\* local current_time, assigned only further down: UnboundLocalError. With an
\* empty table the loop is skipped and all_waits_finished is posted.
DaqmxReadLoop ==
  /\ wm_pc = "ret"
  /\ wm_result = "edge"
  /\ IF Len(wait_table) = 0
     THEN /\ wm_posted' = Append(wm_posted, "all_waits_finished")
          /\ wm_pc' = "done"
          /\ UNCHANGED wm_result
     ELSE /\ wm_pc' = "dead"
          /\ wm_result' = "UnboundLocalError"
          /\ UNCHANGED wm_posted
  /\ UNCHANGED <<wm_abort, wm_timeout, wm_readEnd, wm_now, wm_edges, wm_err,
                 wm_abortAt, wmsess, timeout_line, waits_store, wm_call, wm_t0,
                 acqvars, purevars>>

\* ------------------------------------------------ extract_measurements()
\* np.ceil(a / b) and np.floor(a / b) for b > 0
Ceil(a, b) == -((-a) \div b)
Floor(a, b) == a \div b

RECURSIVE SumDurations(_, _)
\* wait_durations[(wait_times < t)].sum()
SumDurations(waits, t) ==
  IF waits = <<>> THEN 0
  ELSE (IF Head(waits).time < t THEN Head(waits).duration ELSE 0)
       + SumDurations(Tail(waits), t)

\* a boundary left where the AI table has it
Unshifted(t, waits) == t

\* `if waits_in_use: t += wait_durations[(wait_times < t)].sum()`
Shifted(t, waits) == IF Len(waits) > 0 THEN t + SumDurations(waits, t) ELSE t

\* i_start = int(np.ceil(rate * (t_start - t0))), less one if sample i_start - 1
\* is not before t_start. Times are whole ticks, the 2e-16 margin is below a tick.
IStart(t_start, t0) ==
  LET i == Ceil(t_start - t0, TicksPerSample)
  IN  IF (i - 1) * TicksPerSample - (t_start - t0) >= 0 THEN i - 1 ELSE i

\* i_end without the step back from a sample that falls on t_end
IEndFloor(t_end, t0) == Floor(t_end - t0, TicksPerSample)

\* i_end = int(np.floor(rate * (t_end - t0))), less one if sample i_end is not
\* before t_end: "the largest integer < x (not <=)"
IEnd(t_end, t0) ==
  LET i == Floor(t_end - t0, TicksPerSample)
  IN  IF (t_end - t0) - i * TicksPerSample <= 0 THEN i - 1 ELSE i

\* where a slice bound lands in an array of n rows
SliceIndex(i, n) == IF i < 0 THEN (IF i + n < 0 THEN 0 ELSE i + n)
                    ELSE (IF i > n THEN n ELSE i)

\* a slice that starts one row late
PySliceLate(raw, a, b) ==
  SubSeq(raw, SliceIndex(a, Len(raw)) + 2, SliceIndex(b, Len(raw)))

\* raw[a : b]
PySlice(raw, a, b) ==
  SubSeq(raw, SliceIndex(a, Len(raw)) + 1, SliceIndex(b, Len(raw)))

\* the body of the loop over the AI table for one row, lines 593-617
ExtractOne(raw, req, t0, waits) ==
  LET t_start == Shifted(req.t_start, waits)
      t_end == Shifted(req.t_end, waits)
      i_start == IStart(t_start, t0)
      i_end == IEnd(t_end, t0)
      num == i_end - i_start + 1
      values == PySlice(raw, i_start, i_end + 1)
  IN  [err |-> IF num < 0 \/ ~Assignable(num, Len(values))
               THEN "ValueError" ELSE "none",
       t_start |-> t_start, t_end |-> t_end,
       i_start |-> i_start, i_end |-> i_end, values |-> values]

\* raw_data = np.concatenate(self.acquired_data): ValueError on an empty list
ExtractConcat ==
  /\ x_pc = "concat"
  /\ IF x_chunks = <<>>
     THEN x_pc' = "raised" /\ x_err' = "ValueError" /\ UNCHANGED x_raw
     ELSE x_pc' = "loop" /\ x_raw' = Units(x_chunks) /\ UNCHANGED x_err
  /\ UNCHANGED <<x_chunks, x_t0, x_waits, x_reqs, x_i, x_out, rvars, svars, acqvars, wmvars>>

\* one pass of `for connection, label, t_start, t_end, ... in acquisitions`
ExtractRow ==
  /\ x_pc = "loop"
  /\ x_i < Len(x_reqs)
  /\ LET one == ExtractOne(x_raw, x_reqs[x_i + 1], x_t0, x_waits)
     IN  IF one.err = "none"
         THEN /\ x_out' = Append(x_out, [req |-> x_i + 1,
                                         t_start |-> one.t_start, t_end |-> one.t_end,
                                         i_start |-> one.i_start,
                                         i_end |-> one.i_end, values |-> one.values])
              /\ x_i' = x_i + 1
              /\ UNCHANGED <<x_pc, x_err>>
         ELSE /\ x_pc' = "raised"
              /\ x_err' = one.err
              /\ UNCHANGED <<x_out, x_i>>
  /\ UNCHANGED <<x_chunks, x_t0, x_waits, x_reqs, x_raw, rvars, svars, acqvars, wmvars>>

\* the loop is through: extract_measurements returns
ExtractReturn ==
  /\ x_pc = "loop"
  /\ x_i = Len(x_reqs)
  /\ x_pc' = "done"
  /\ UNCHANGED <<x_chunks, x_t0, x_waits, x_reqs, x_raw, x_i, x_out, x_err, rvars,
                 svars, acqvars, wmvars>>

\* the chunk lists read() can have built: consecutive samples, numbered from 1
RECURSIVE ChunksOf(_, _)
ChunksOf(sizes, first) ==
  IF sizes = <<>> THEN <<>>
  ELSE <<[first |-> first, n |-> Head(sizes)]>>
       \o ChunksOf(Tail(sizes), first + Head(sizes))

ChunkLists ==
  UNION {{ChunksOf(sizes, 1) : sizes \in [1..k -> ChunkSizes]} : k \in 0..MaxChunks}

\* the samples of a chunk list
NumRows(chunks) ==
  IF chunks = <<>> THEN 0 ELSE chunks[Len(chunks)].first + chunks[Len(chunks)].n - 1

\* the resolved waits a shot file may hold
ResolvedWaits ==
  UNION {{w \in [1..n -> [time : 1..MaxWaitTime, duration : 1..MaxDuration]] :
            \A i \in 1..(n - 1) : w[i].time < w[i + 1].time} : n \in 0..MaxWaits}

\* the rows of the AI table for a buffer of n samples: windows from before the
\* start delay to after the last sample
Requests(n, t0) ==
  LET ts == (t0 - 2 * TicksPerSample - 1)..(t0 + n * TicksPerSample + 1)
  IN  {r \in [t_start : ts, t_end : ts] : r.t_start <= r.t_end}

\* nothing handed to the extraction
XIdle ==
  /\ x_chunks = <<>>
  /\ x_t0 = 0
  /\ x_waits = <<>>
  /\ x_reqs = <<>>
  /\ x_pc = "idle"
  /\ x_raw = <<>>
  /\ x_i = 0
  /\ x_out = <<>>
  /\ x_err = "none"

\* a session's chunks, start delay, waits and at most maxreqs rows, handed to
\* the concatenation
XInputs(maxreqs) ==
  /\ x_chunks \in ChunkLists
  /\ x_t0 \in StartDelays
  /\ x_waits \in ResolvedWaits
  /\ x_reqs \in UNION {[1..k -> Requests(NumRows(x_chunks), x_t0)] : k \in 0..maxreqs}
  /\ x_pc = "concat"
  /\ x_raw = <<>>
  /\ x_i = 0
  /\ x_out = <<>>
  /\ x_err = "none"

\* ----------------------------------------------------- the wait durations
\* transition_to_manual's lines 804-829 on the half periods and the wait table
Resolve ==
  /\ r_pc = "call"
  /\ r_out' = WaitOutcomes(r_half_periods, r_table)
  /\ r_pc' = "done"
  /\ UNCHANGED <<r_half_periods, r_table, xvars, svars, acqvars, wmvars>>

\* half periods and timeouts of 0.05 s, 0.1 s and 0.2 s, in ticks of 0.05 s
ExampleTicks == {1, 2, 4}

\* the half-period sequences a session can record
HalfPeriodLists ==
  UNION {[1..k -> 1..MaxHalfPeriod] : k \in 0..(2 * MaxWaits + 1)}

RIdle ==
  /\ r_half_periods = <<>>
  /\ r_table = <<>>
  /\ r_pc = "idle"
  /\ r_out = [err |-> "none", rows |-> <<>>]

RInputs ==
  /\ r_half_periods \in HalfPeriodLists
  /\ r_table \in WaitTables
  /\ r_pc = "call"
  /\ r_out = [err |-> "none", rows |-> <<>>]

\* ------------------------------------------------- the size of one read
\* start_task, line 458, for the rate it is called with
StartTaskSize ==
  /\ s_pc = "call"
  /\ s_num_samples' = NumSamples(s_rate)
  /\ s_pc' = "done"
  /\ UNCHANGED <<s_rate, xvars, rvars, acqvars, wmvars>>

\* the rates start_task can be called with: low ones, the ones about the rate
\* at which MAX_READ_PTS takes over, and the ones of the sessions
SampleRates ==
  (1..MaxRate)
    \cup {MAX_READ_PTS * MAX_READ_INTERVAL_DIV + d : d \in (0 - MaxRate)..MaxRate}
    \cup Rates

SIdle ==
  /\ s_rate = 0
  /\ s_pc = "idle"
  /\ s_num_samples = 0

SInputs ==
  /\ s_rate \in SampleRates
  /\ s_pc = "call"
  /\ s_num_samples = 0

Init == AcqInit /\ SIdle /\ WmIdle /\ XIdle /\ RIdle

\* the callback thread and the driver
CallbackNext ==
  \/ HwEveryNSamples
  \/ CbBegin
  \/ CbLock
  \/ CbCheck
  \/ CbRead
  \/ CbAppend

\* the foreground thread inside start_task or stop_task
StreamNext ==
  \/ StopLock
  \/ StopGuard
  \/ StopRead
  \/ StopStop
  \/ StopClear
  \/ StopUnlock
  \/ StartGuard
  \/ StartAlloc
  \/ StartRun

\* the foreground thread inside transition_to_buffered or transition_to_manual
TransitionNext ==
  \/ T2B_Setup
  \/ T2B_Mode
  \/ T2B_Done
  \/ T2M_Mode
  \/ T2M_Abort
  \/ T2M_Concat
  \/ T2M_Extract
  \/ T2M_Finish

\* the worker as the BLACS host drives it
Next ==
  \/ CallbackNext
  \/ StreamNext
  \/ TransitionNext
  \/ T2B_Call
  \/ T2M_Call
  \/ WaitDurationsAnalysedPost

Spec == Init /\ [][Next]_vars

\* the stream alone: start_task and stop_task called directly, with the callbacks
NextAPI ==
  \/ CallbackNext
  \/ StreamNext
  \/ API_StartTask
  \/ API_StopTask

SpecAPI == Init /\ [][NextAPI]_vars

\* wait_for_rising_edge called with every timeout, against aborts, edges and time
NextWait ==
  \/ WaitCall
  \/ WaitLoop
  \/ WaitEdge
  \/ WaitTimeout
  \/ Tick
  \/ HwEdge
  \/ WM_TransitionToManual
  \/ SendResumeTrigger

\* an instance configured with any trigger type, its thread not started
InitWait == AcqInit /\ SIdle /\ XIdle /\ RIdle /\ \E type \in TriggerTypes : WmFresh(type)

SpecWait == InitWait /\ [][NextWait]_vars

\* the wait monitor as the BLACS host drives it
NextWM ==
  \/ WM_TransitionToBuffered
  \/ DaqmxReadStart
  \/ DaqmxReadLoop
  \/ WaitLoop
  \/ WaitEdge
  \/ WaitTimeout
  \/ Tick
  \/ HwEdge
  \/ WM_TransitionToManual

SpecWM == Init /\ [][NextWM]_vars

\* where the thread, the clock and the counter input are
wmstep == <<wm_pc, wm_result, wm_readEnd, wm_timeout, wm_now, wm_edges>>

\* every step of the thread that stays possible is taken, time passes, and an
\* edge that can come does come
FairWM ==
  /\ WF_wmstep(DaqmxReadStart)
  /\ WF_wmstep(DaqmxReadLoop)
  /\ WF_wmstep(WaitLoop)
  /\ WF_wmstep(WaitEdge)
  /\ WF_wmstep(WaitTimeout)
  /\ WF_wmstep(Tick)
  /\ SF_wmstep(HwEdge)

\* the wait monitor with the read thread scheduled and the clock and the
\* hardware going on
SpecWMLive == Init /\ [][NextWM]_vars /\ FairWM

\* the concatenation and extract_measurements on every input
NextExtract ==
  \/ ExtractConcat
  \/ ExtractRow
  \/ ExtractReturn

InitExtract == AcqInit /\ SIdle /\ WmIdle /\ RIdle /\ XInputs(MaxReqs)

SpecExtract == InitExtract /\ [][NextExtract]_vars

\* the same on an AI table of at most one row
InitWindow == AcqInit /\ SIdle /\ WmIdle /\ RIdle /\ XInputs(1)

SpecWindow == InitWindow /\ [][NextExtract]_vars

\* the wait durations on every input
NextResolve == Resolve

InitResolve == AcqInit /\ SIdle /\ WmIdle /\ XIdle /\ RInputs

SpecResolve == InitResolve /\ [][NextResolve]_vars

\* the wait durations of one pause, with times in ticks of 0.05 s
InitExample ==
  /\ AcqInit /\ SIdle /\ WmIdle /\ XIdle
  /\ r_half_periods \in UNION {[1..k -> ExampleTicks] : k \in 0..(2 * MaxWaits)}
  /\ r_table \in [1..1 -> [time : 1..MaxWaitTime, timeout : ExampleTicks]]
  /\ r_pc = "call"
  /\ r_out = [err |-> "none", rows |-> <<>>]

SpecExample == InitExample /\ [][NextResolve]_vars

\* the size of start_task's read for every rate
NextRate == StartTaskSize

InitRate == AcqInit /\ WmIdle /\ XIdle /\ RIdle /\ SInputs

SpecRate == InitRate /\ [][NextRate]_vars

\* ================================================================= claims

ManualTaskActive ==
  /\ task # 0
  /\ drv.h = task
  /\ drv.kind = "manual"
  /\ drv.state = "running"
  /\ ~buffered_mode

\* blocks a callback has read from the buffered task and not yet appended
Inflight == IF cbpc = "append" /\ cbData.kind = "buffered" THEN cbData.n ELSE 0

\* C1: with read callbacks and stop_task interleaved in every way, the accumulator
\* holds exactly the blocks read from the session's buffered task, once each and
\* in order, and every chunk was appended while its task handle was still set.
C1_BufferIntact ==
  ~acquired_data.isNone =>
    /\ Units(acquired_data.chunks) = [i \in 1..(sessRead - Inflight) |-> i]
    /\ \A i \in 1..Len(acquired_data.chunks) :
         acquired_data.chunks[i].live /\ acquired_data.chunks[i].kind = "buffered"
    /\ lastCb # "fault"

\* stop_task has cleared the buffered task under the lock while a callback of that
\* task waits for the lock, with chunks already accumulated
C1_Witness ==
  /\ fgop = "t2m"
  /\ fgpc = "stop_unlock"
  /\ task = 0
  /\ cbpc = "lock"
  /\ cbH = IntHandle(drv.h)
  /\ Len(acquired_data.chunks) >= 1

SharedChanged ==
  task' # task \/ acquired_data' # acquired_data \/ buffered_mode' # buffered_mode

StopLabels == {"stop_lock", "stop_guard", "stop_read", "stop_stop", "stop_clear",
               "stop_unlock"}

\* C2 as stated: every step that changes task, acquired_data or buffered_mode is
\* taken by a thread that holds the task lock.
C2_AllUnderLock ==
  [][SharedChanged => lockOwner = (IF cbpc' # cbpc THEN "cb" ELSE "fg")]_vars

\* C2 amended: read and stop_task change task and acquired_data only while holding
\* the task lock; start_task and the transitions change the shared state without
\* the lock, but task is assigned only when it is None, buffered_mode changes only
\* while task is None, and acquired_data is replaced only while buffered_mode is
\* False.
C2_LockOrQuiescent ==
  [][/\ (SharedChanged /\ cbpc' # cbpc) => lockOwner = "cb"
     /\ (SharedChanged /\ cbpc' = cbpc /\ fgpc \in StopLabels) => lockOwner = "fg"
     /\ (task' # task /\ cbpc' = cbpc /\ fgpc \notin StopLabels) => task = 0
     /\ (buffered_mode' # buffered_mode) => task = 0
     /\ (acquired_data' # acquired_data /\ cbpc' = cbpc /\ fgpc \notin StopLabels)
          => ~buffered_mode]_vars

\* start_task has assigned self.task while a callback is inside the lock
C2_Witness ==
  /\ fgpc = "start_run"
  /\ task # 0
  /\ lockOwner = "cb"
  /\ cbpc = "check"

\* C3: the final read of stop_task on a buffered task takes every block the task
\* has acquired and not yet delivered, and appends them to the accumulator.
C3_FinalReadDrains ==
  [][(fgpc = "stop_read" /\ fgpc' = "stop_stop" /\ drv.kind = "buffered") =>
       /\ drv'.rd = drv.acq
       /\ (buffered_mode /\ ~acquired_data.isNone) =>
            Len(Units(acquired_data'.chunks)) = Len(Units(acquired_data.chunks))
                                                  + (drv.acq - drv.rd)]_vars

\* C4: a callback whose handle is not that of the active task (or that finds no
\* task) ends at its check: nothing is read, nothing appended, no state changed,
\* no error; so every read and every chunk belongs to a matching handle.
C4_StaleDiscarded ==
  /\ [](cbpc \in {"read", "append"} => (task # 0 /\ cbH = IntHandle(task)))
  /\ [](\A i \in 1..Len(acquired_data.chunks) :
          acquired_data.chunks[i].arg = IntHandle(acquired_data.chunks[i].h))
  /\ [](lastCb # "fault")
  /\ [][(cbpc = "check" /\ cbpc' # cbpc /\ (task = 0 \/ cbH # IntHandle(task))) =>
          /\ cbpc' = "idle"
          /\ lastCb' \in {"discard_none", "discard_stale"}
          /\ UNCHANGED <<selfvars, drv, pending, sessRead, err>>]_vars

\* a callback of the stopped manual task was discarded while the buffered task
\* is active
C4_Witness ==
  /\ lastCb = "discard_stale"
  /\ cbpc = "idle"
  /\ task # 0
  /\ cbH # IntHandle(task)
  /\ drv.kind = "buffered"
  /\ drv.state = "running"

\* C5: whenever transition_to_manual was entered in buffered mode and has
\* returned or raised, the manual-mode task is active.
C5_ManualResumed ==
  (fgop = "t2m" /\ fgpc = "idle" /\ entered) => ManualTaskActive

\* C6 as stated: without abort, the manual-mode task is restarted only after the
\* session has been finalized.
C6_FinalizeBeforeRestart ==
  (fgop = "t2m" /\ entered /\ ~fgabort
     /\ fgpc \in {"start_guard", "start_alloc", "start_run"}) => h5_file \in traces

\* C6 amended: without abort, the buffered task is stopped first, then the
\* manual-mode task is restarted, and only after that is the session finalized.
C6_RestartBeforeFinalize ==
  /\ (fgop = "t2m" /\ fgpc \in {"start_guard", "start_alloc", "start_run"}) =>
       (drv.kind = "buffered" => drv.state = "cleared") /\ h5_file \notin traces
  /\ (fgop = "t2m" /\ fgpc \in {"t2m_concat", "t2m_extract", "t2m_finish"}) =>
       ~fgabort /\ ManualTaskActive

\* the session is being extracted with the manual-mode task already running
C6_Witness ==
  /\ fgop = "t2m"
  /\ fgpc = "t2m_extract"
  /\ ManualTaskActive

\* C7: transition_to_manual(abort=True) ends without an error, without traces
\* written for the shot, and with the accumulator, the channel list, the file
\* and the rate cleared.
C7_AbortDiscards ==
  (fgop = "t2m" /\ fgabort /\ fgpc = "idle") =>
    /\ err = "none"
    /\ traces = tracesIn
    /\ acquired_data.isNone
    /\ ~buffered_chans
    /\ h5_file = 0
    /\ buffered_rate = 0

\* C8: start_task with a task active, and stop_task with none, raise and leave
\* task, read_array, acquired_data and buffered_mode as they were.
C8_WrongStateRejected ==
  [][/\ (fgpc = "start_guard" /\ task # 0 /\ fgpc' # fgpc) =>
          /\ err' = "RuntimeError"
          /\ fgpc' = "idle"
          /\ UNCHANGED <<task, read_array, acquired_data, buffered_mode, drv>>
     /\ (fgpc = "stop_guard" /\ task = 0 /\ fgpc' # fgpc) =>
          /\ err' = "RuntimeError"
          /\ fgpc' = "idle"
          /\ lockOwner' = "none"
          /\ UNCHANGED <<task, read_array, acquired_data, buffered_mode, drv>>]_vars

\* both guards have raised
C8_Witness ==
  /\ rejects = {"start_task", "stop_task"}
  /\ fgpc = "idle"
  /\ err = "RuntimeError"

PulseEmitted ==
  LET trigger == IF timeout_trigger_type = "rising" THEN 1 ELSE 0
  IN  \E i \in 1..(Len(timeout_line) - 1) :
        timeout_line[i] = trigger /\ timeout_line[i + 1] = 1 - trigger

\* the tick at which the first PauseEvent times out
FirstDeadline == wm_t0 + wait_table[1].time + wait_table[1].timeout

\* C12: a retrigger pulse is emitted on the timeout line if and only if no edge
\* was observed within the pause's timeout: once the first pause's deadline has
\* passed in a running session with no edge since the start, the line has been
\* pulsed, and it is never pulsed before that deadline.
C12_RetriggerOnTimeout ==
  /\ ( /\ wm_call.op = "t2b"
       /\ is_wait_monitor_device
       /\ timeout_trigger_type \in {"rising", "falling"}
       /\ wm_t0 >= 0
       /\ wm_edges = 0
       /\ wm_now > FirstDeadline ) => PulseEmitted
  /\ PulseEmitted => (wm_t0 >= 0 /\ wm_now >= FirstDeadline)

\* C13: a trigger polarity other than "rising" or "falling" makes the
\* transition to buffered mode of the wait monitor device fail, with no task
\* armed and no thread started.
C13_BadPolarityRejected ==
  ( /\ wm_call.op = "t2b"
    /\ wm_roles.timeout /\ wm_roles.acquisition
    /\ waits_in_use
    /\ timeout_trigger_type \notin {"rising", "falling"} ) =>
  (wm_err # "none" /\ wm_pc = "none" /\ task_running # "True")

\* C14: once a session has ended without abort, the device designated as wait
\* monitor has written /data/waits exactly once, with one record per PauseEvent
\* (none for an empty table) and without error; any other device has written
\* nothing.
C14_OutcomesWrittenOnce ==
  (wm_call = [op |-> "t2m", abort |-> FALSE]) =>
    IF wm_roles.timeout /\ wm_roles.acquisition
    THEN /\ wm_err = "none"
         /\ Len(waits_store) = 1
         /\ Len(waits_store[1]) = Len(wait_table)
    ELSE waits_store = <<>>

\* C15: with waits in use, extract_measurements is left, with the traces written
\* or with an error, only once wait_durations_analysed has been posted for the
\* shot's file: the durations are not read and no trace is written before.
C15_ExtractAfterAnalysed ==
  [][(shot_waits /\ (traces' # traces \/ (fgpc = "t2m_extract" /\ fgpc' # fgpc)))
       => h5_file \in analysed]_vars

C15_Witness ==
  /\ shot_waits
  /\ shots \in traces
  /\ shots \in analysed

\* the index range of a dataset lies inside the buffer and is not empty
InsideBuffer(o) == 0 <= o.i_start /\ o.i_start <= o.i_end /\ o.i_end <= Len(x_raw) - 1

\* C16: no MeasurementSeries is produced for a request whose computed index
\* range i_start..i_end is not contained in [0, N-1]: every dataset created
\* for a range that is not empty has 0 <= i_start and i_end <= N-1.
C16_NoReadOutside ==
  \A j \in 1..Len(x_out) :
    x_out[j].i_start <= x_out[j].i_end =>
      (0 <= x_out[j].i_start /\ x_out[j].i_end <= Len(x_raw) - 1)

\* a dataset holding samples for a range that lies before the buffer
WrappedSeries ==
  \E j \in 1..Len(x_out) : x_out[j].i_end < 0 /\ x_out[j].values # <<>>

\* C17: a request that fails does not keep the others from being extracted:
\* when extract_measurements has ended, every row of the AI table whose window
\* lies inside the buffered data has its dataset, wherever it is in the table.
C17_OthersStillExtracted ==
  (x_pc \in {"done", "raised"} /\ x_chunks # <<>>) =>
    \A k \in 1..Len(x_reqs) :
      InsideBuffer(ExtractOne(x_raw, x_reqs[k], x_t0, x_waits)) =>
        \E j \in 1..Len(x_out) : x_out[j].req = k

\* the shifted end time of the request of a dataset, from the start delay
EndOffset(o) == Shifted(x_reqs[o.req].t_end, x_waits) - x_t0

\* the request's shifted end time is on a sample boundary
OnBoundary(o) == EndOffset(o) % TicksPerSample = 0

\* C18 (as claimed): a request whose shifted end time is exactly on sample
\* boundary k includes that sample: i_end = k.
C18_BoundaryIncluded ==
  \A j \in 1..Len(x_out) :
    OnBoundary(x_out[j]) => x_out[j].i_end = EndOffset(x_out[j]) \div TicksPerSample

\* C18 (amended): a request whose shifted end time is exactly on sample boundary
\* k leaves that sample out: i_end = k - 1, and a series cut from inside the
\* buffer ends with sample k - 1 (the k-th sample).
C18_BoundaryExcluded ==
  \A j \in 1..Len(x_out) :
    LET o == x_out[j]
        k == EndOffset(o) \div TicksPerSample
    IN  OnBoundary(o) =>
          /\ o.i_end = k - 1
          /\ InsideBuffer(o) => o.values[Len(o.values)] = x_raw[k]

C18_Witness ==
  /\ x_pc = "done"
  /\ \E j \in 1..Len(x_out) :
       /\ OnBoundary(x_out[j])
       /\ InsideBuffer(x_out[j])
       /\ Len(x_out[j].values) >= 2

\* the samples of a chunk list, counted chunk by chunk
RECURSIVE TotalRows(_)
TotalRows(chunks) ==
  IF chunks = <<>> THEN 0 ELSE Head(chunks).n + TotalRows(Tail(chunks))

\* the request's shifted window starts at the first sample and ends after the
\* last one, within a sample period
CoversSession(req) ==
  LET t_start == Shifted(req.t_start, x_waits) - x_t0
      t_end == Shifted(req.t_end, x_waits) - x_t0
      n == TotalRows(x_chunks)
  IN  /\ -TicksPerSample < t_start /\ t_start <= 0
      /\ (n - 1) * TicksPerSample < t_end /\ t_end <= n * TicksPerSample

RECURSIVE EdgeTime(_, _)
EdgeTime(hp, m) == IF m = 0 THEN 0 ELSE EdgeTime(hp, m - 1) + hp[m]

\* the scheduled start of pause k, with the start of the experiment as pause 0
Scheduled(table, k) == IF k = 0 THEN 0 ELSE table[k].time

ExampleGiven ==
  /\ r_pc = "done"
  /\ r_half_periods = <<2, 1, 4, 1>>
  /\ r_table = <<[time |-> 2, timeout |-> 4]>>

RECURSIVE DurationOf(_)
DurationOf(S) ==
  IF S = {} THEN 0
  ELSE LET k == CHOOSE k \in S : TRUE
       IN  x_waits[k].duration + DurationOf(S \ {k})

\* the pauses of the shot scheduled before time t
PausesBefore(t) == {k \in 1..Len(x_waits) : x_waits[k].time < t}

\* C22: for every request that is extracted, the shifted start is the nominal
\* start plus the durations of all pauses scheduled before the nominal start,
\* and the shifted end is the nominal end plus the durations of all pauses
\* scheduled before the nominal end; so the window is longer than the nominal
\* one by the durations of the pauses that begin inside it.
C22_WindowShifted ==
  \A j \in 1..Len(x_out) :
    LET o == x_out[j]
        req == x_reqs[o.req]
    IN  /\ o.t_start = req.t_start + DurationOf(PausesBefore(req.t_start))
        /\ o.t_end = req.t_end + DurationOf(PausesBefore(req.t_end))
        /\ (o.t_end - o.t_start) - (req.t_end - req.t_start)
             = DurationOf(PausesBefore(req.t_end) \ PausesBefore(req.t_start))

\* a window extracted with one pause before it and another beginning inside it
C22_Witness ==
  /\ x_pc = "done"
  /\ \E j \in 1..Len(x_out) :
       LET req == x_reqs[x_out[j].req]
       IN  /\ PausesBefore(req.t_start) # {}
           /\ PausesBefore(req.t_end) \ PausesBefore(req.t_start) # {}
           /\ Len(x_out[j].values) >= 1

\* C23: for every rate r > 0, start_task takes
\* num_samples = min(10000, floor(r * 0.2)), and num_samples is at least 1.
C23_NumSamplesAtLeastOne ==
  (s_pc = "done" /\ s_rate > 0) =>
    /\ s_num_samples = (IF s_rate \div 5 < 10000 THEN s_rate \div 5 ELSE 10000)
    /\ s_num_samples >= 1

\* C24: the half periods returned by the edge waits of the per-pause loop are
\* recorded in self.half_periods: when the monitor thread of a session with n
\* pauses has run out without being aborted, the session holds exactly 2n
\* half periods for the wait durations to be worked out from.
C24_HalfPeriodsRecorded ==
  ( /\ is_wait_monitor_device = TRUE
    /\ wm_pc \in {"dead", "done"}
    /\ wm_result # "Aborted" ) =>
  Len(half_periods.list) = 2 * Len(wait_table)

\* all_waits_finished has been posted
AllWaitsFinishedPosted ==
  \E i \in 1..Len(wm_posted) : wm_posted[i] = "all_waits_finished"

\* C25: once the monitor thread of a session is started, with the thread
\* scheduled and the hardware producing its edges, either the session is ended
\* by transition_to_manual or the thread gets through every PauseEvent and
\* posts all_waits_finished: it never stops short of that.
C25_AllWaitsFinished ==
  [](wm_pc = "start" => <>(wm_call.op = "t2m" \/ AllWaitsFinishedPosted))

\* C26: the acquisition worker never holds more than one task: start_task
\* creates one only when self.task is None; and whenever no call is in
\* progress exactly one task is held and running, the one in self.task: a
\* manual-mode task when buffered_mode is False, a buffered-mode task when it
\* is True.
C26_OneTaskActive ==
  /\ Cardinality(held) <= 1
  /\ fgpc = "start_alloc" => (task = 0 /\ held = {})
  /\ fgpc = "idle" =>
       /\ task # 0
       /\ held = {task}
       /\ drv.h = task
       /\ drv.state = "running"
       /\ drv.kind = (IF buffered_mode THEN "buffered" ELSE "manual")

\* a buffered session has been gone through and the manual-mode task is back
C26_Witness ==
  /\ fgpc = "idle"
  /\ fgop = "t2m"
  /\ entered
  /\ ~buffered_mode
  /\ nhandles >= 3
  /\ held = {nhandles}
  /\ drv.kind = "manual"

\* C27: with read callbacks and the two transitions interleaved in every way,
\* a step that appends a chunk to the accumulator appends one read from the
\* buffered task of the current session, in buffered mode; and a read of a
\* manual-mode task, before the switch to buffered mode or after the switch
\* back, leaves the accumulator as it is.
C27_OnlyBufferedAppended ==
  [][/\ Len(acquired_data'.chunks) > Len(acquired_data.chunks) =>
          LET c == acquired_data'.chunks[Len(acquired_data'.chunks)]
          IN  /\ c.kind = "buffered"
              /\ c.h = task
              /\ drv.h = task
              /\ buffered_mode
              /\ h5_file = shots
     /\ (cbpc = "append" /\ cbpc' = "idle" /\ cbData.kind = "manual") =>
          acquired_data' = acquired_data]_vars

\* a callback has read a chunk from the manual-mode task while the session's
\* accumulator, with chunks of the buffered task in it, was still there
C27_Witness ==
  /\ ~acquired_data.isNone
  /\ Len(acquired_data.chunks) >= 1
  /\ cbpc = "idle"
  /\ lastCb = "read"
  /\ cbData.kind = "manual"
  /\ cbData.n >= 1

\* the tasks of the wait monitor are created and started and its thread is
\* started
BecameWaitMonitor ==
  is_wait_monitor_device /\ task_running = "True" /\ wm_pc # "none"

\* no task of the wait monitor is created and no thread is started
NoTaskNoThread ==
  (~is_wait_monitor_device) /\ task_running = "unset" /\ wm_pc = "none"

\* C30: with waits in use, transition_to_buffered of the wait monitor worker
\* raises NotImplementedError when the device is named as exactly one of the
\* timeout device and the acquisition device; it becomes the wait monitor only
\* when it is both, and creates no task and starts no thread when it is neither.
C30_BothRolesOrError ==
  (wm_call.op = "t2b" /\ waits_in_use) =>
    /\ (wm_roles.timeout /\ wm_roles.acquisition) =>
         (BecameWaitMonitor /\ wm_err = "none")
    /\ (wm_roles.timeout # wm_roles.acquisition) =>
         (NoTaskNoThread /\ wm_err = "NotImplementedError")
    /\ ((~wm_roles.timeout) /\ ~wm_roles.acquisition) =>
         (NoTaskNoThread /\ wm_err = "none")

====
